---- MODULE Spec2Model ----
(***************************************************************************)
(* Quiz bot (src/bot.py, version 10): the score table, the per-user        *)
(* session data kept in context.user_data, the handlers registered in      *)
(* main(), and the leaderboard paginator.                                  *)
(*                                                                         *)
(* The Application is built without concurrent_updates, so one update is   *)
(* handled to completion before the next one is taken: each handler is one *)
(* action.                                                                 *)
(***************************************************************************)
EXTENDS Integers, Sequences, FiniteSets, TLC

\* ------------------------------------------------------------------ bounds
MaxScore == 2
MaxTotal == 12
MaxPageAsk == 10
\* answer updates taken up while others are in flight
MaxTasks == 2

\* --------------------------------------------------------------- constants
PAGE_SIZE == 5

Users == {1, 2}
Names == {"A", "B"}

\* Display names compare as Python strings do; NameRank gives their order.
NameRank(n) == CASE n = "A" -> 1 [] n = "B" -> 2 [] OTHER -> 3

\* The loaded catalog: load_questions accepts any non-empty JSON object, so a
\* category with an empty question list is a catalog the bot starts with.
Q1 == [question |-> "q1", options |-> <<"a", "b">>, answer |-> "a"]
Q2 == [question |-> "q2", options |-> <<"a", "b">>, answer |-> "b"]

Categories == {"math", "empty"}

quiz_data == [c \in Categories |-> IF c = "math" THEN <<Q1, Q2>> ELSE <<>>]

\* callback data a category button can carry ("nope": a button of an older catalog)
CategoryInputs == Categories \cup {"nope"}
\* page numbers a leaderboard_page_<n> button can carry
PageButtons == {0, 1}
\* callback data an answer button can carry
OptionInputs == {"a", "b"}

Range(s) == {s[i] : i \in 1..Len(s)}

\* ------------------------------------------------------------------- state
VARIABLES
  scores,     \* the score table, entries [uid, name, score] in dict insertion order
  file,       \* scores.json: missing, corrupt, or a saved score table
  user_data,  \* context.user_data of each user: a dict keyed by strings
  reply,      \* the message the last handler sent
  answered,   \* history: the question last delivered to the user has been resolved
  boot,       \* the process: how far the import of bot.py got, and what it read
  disk,       \* the save_scores call in progress, and scores.json.tmp
  tasks,      \* answer handlers in flight when updates are handled concurrently
  db          \* quiz_bot.db: its users table

vars == <<scores, file, user_data, reply, answered, boot, disk, tasks, db>>

\* what the handlers, run one at a time by a started bot, leave alone
others == <<boot, disk, tasks, db>>

\* ------------------------------------------------------------ score table
HasUser(sc, uid) == \E i \in 1..Len(sc) : sc[i].uid = uid

\* a bug: the first record is taken whatever the key
IndexOf_First(sc, uid) == 1

IndexOf(sc, uid) == CHOOSE i \in 1..Len(sc) : sc[i].uid = uid

ScoreOf(sc, uid) == IF HasUser(sc, uid) THEN sc[IndexOf(sc, uid)].score ELSE 0

NameOf(sc, uid) == sc[IndexOf(sc, uid)].name

\* scores[user_id] = {"name": name, "score": 0}: a new key goes last
NewRecord(sc, uid, name) == Append(sc, [uid |-> uid, name |-> name, score |-> 0])

\* scores[user_id]["name"] = name
SetName(sc, uid, name) == [sc EXCEPT ![IndexOf(sc, uid)].name = name]

\* scores[user_id]["score"] += 1
IncrementScore(sc, uid) == [sc EXCEPT ![IndexOf(sc, uid)].score = @ + 1]

\* ------------------------------------------------------------ persistence
\* scores.json is absent, unparsable, or holds a dumped score table
MissingFile == [state |-> "missing", data |-> <<>>]
CorruptFile == [state |-> "corrupt", data |-> <<>>]
SavedFile(data) == [state |-> "saved", data |-> data]

load_scores(f) == IF f.state = "saved" THEN f.data ELSE <<>>

\* save_scores: the dump and the replace succeed (ok), or an exception is
\* caught and logged and scores.json keeps its content
save_scores(f, data, ok) == IF ok THEN SavedFile(data) ELSE f

\* ------------------------------------------------------------ session data
NoData == [k \in {} |-> ""]

HasKey(d, k) == k \in DOMAIN d

\* context.user_data[k] = v
SetKey(d, k, v) == [x \in DOMAIN d \cup {k} |-> IF x = k THEN v ELSE d[x]]

\* get_new_question: the values it can return; the empty set stands for None
get_new_question(category) ==
  IF category \notin DOMAIN quiz_data \/ quiz_data[category] = <<>>
  THEN {}
  ELSE Range(quiz_data[category])

\* The jobs scheduled with the Application: main() registers handlers only and
\* no handler schedules a job, so no user ever has a timeout armed
armed_timeouts == {}

\* ------------------------------------------------------------- leaderboard
\* sorted(scores.items(), key=score, reverse=True): a stable sort, so entries
\* of equal score keep the order they have in the table
InsertSorted(s, e) ==
  LET k == Cardinality({i \in 1..Len(s) : s[i].score >= e.score})
  IN SubSeq(s, 1, k) \o <<e>> \o SubSeq(s, k + 1, Len(s))

RECURSIVE SortedScores(_)
SortedScores(sc) ==
  IF sc = <<>> THEN <<>>
  ELSE InsertSorted(SortedScores(SubSeq(sc, 1, Len(sc) - 1)), sc[Len(sc)])

\* math.ceil(a / b) for a >= 0, b > 0
Ceil(a, b) == (a + b - 1) \div b

Max(a, b) == IF a >= b THEN a ELSE b
Min(a, b) == IF a <= b THEN a ELSE b

TotalPages(total_players) == Max(1, Ceil(total_players, PAGE_SIZE))

\* a bug: the upper clamp alone
ClampPage_NoFloor(page, total_pages) == Min(page, total_pages - 1)

ClampPage(page, total_pages) == Max(0, Min(page, total_pages - 1))

\* a slice bound as Python reads it: negative counts from the end, then clamped
SliceBound(i, n) == IF i < 0 THEN Max(0, i + n) ELSE Min(i, n)

\* s[start:end]
PySlice(s, start, end) ==
  LET lo == SliceBound(start, Len(s))
      hi == SliceBound(end, Len(s))
  IN IF lo < hi THEN SubSeq(s, lo + 1, hi) ELSE <<>>

\* a bug: the rank numbers restart at 1 on every page
PageLines_RankRestarts(sorted_scores, page, requester) ==
  LET start == page * PAGE_SIZE
      players_on_page == PySlice(sorted_scores, start, start + PAGE_SIZE)
  IN [k \in 1..Len(players_on_page) |->
        [rank |-> k,
         uid |-> players_on_page[k].uid,
         name |-> players_on_page[k].name,
         score |-> players_on_page[k].score,
         you |-> (players_on_page[k].uid = requester)]]

\* the lines of one page: enumerate(players_on_page, start=start + 1)
PageLines(sorted_scores, page, requester) ==
  LET start == page * PAGE_SIZE
      players_on_page == PySlice(sorted_scores, start, start + PAGE_SIZE)
  IN [k \in 1..Len(players_on_page) |->
        [rank |-> start + k,
         uid |-> players_on_page[k].uid,
         name |-> players_on_page[k].name,
         score |-> players_on_page[k].score,
         you |-> (players_on_page[k].uid = requester)]]

\* a bug: "next" offered on the last page too
NavButtons_NextOnLast(page, total_pages) ==
  (IF page > 0 THEN <<[label |-> "prev", page |-> page - 1]>> ELSE <<>>)
  \o (IF page < total_pages THEN <<[label |-> "next", page |-> page + 1]>> ELSE <<>>)

\* buttons_row: "Previous" then "Next", each with the page its callback names
NavButtons(page, total_pages) ==
  (IF page > 0 THEN <<[label |-> "prev", page |-> page - 1]>> ELSE <<>>)
  \o (IF page < total_pages - 1 THEN <<[label |-> "next", page |-> page + 1]>> ELSE <<>>)

build_leaderboard_page(sorted_scores, page, requester) ==
  LET total_pages == TotalPages(Len(sorted_scores))
      p == ClampPage(page, total_pages)
  IN [page |-> p,
      total_pages |-> total_pages,
      lines |-> PageLines(sorted_scores, p, requester),
      buttons |-> NavButtons(p, total_pages)]

NoView == [page |-> 0, total_pages |-> 0, lines |-> <<>>, buttons |-> <<>>]

\* A message sent: its kind, the score its text shows (-1: none), and for a
\* leaderboard page the page asked for and the page rendered
Message(kind, score_shown) ==
  [kind |-> kind, score |-> score_shown, asked |-> 0, view |-> NoView]

LeaderboardMessage(asked, view) ==
  [kind |-> "leaderboard", score |-> -1, asked |-> asked, view |-> view]

\* ---------------------------------------------------------------- handlers
\* /start: create or refresh the user's record, save, send the welcome
start(u, name, ok) ==
  LET sc == IF ~HasUser(scores, u) THEN NewRecord(scores, u, name)
            ELSE SetName(scores, u, name)
  IN /\ scores' = sc
     /\ file' = save_scores(file, sc, ok)
     /\ reply' = Message("welcome", -1)
     /\ UNCHANGED <<user_data, answered>>

\* /quiz: show the category buttons
quiz(u) ==
  /\ UNCHANGED <<scores, file, user_data, answered>>
  /\ reply' = Message("choose_category", -1)

select_category_handler(u, category) ==
  IF category \notin DOMAIN quiz_data
  THEN /\ reply' = Message("unknown_category", -1)
       /\ UNCHANGED <<scores, file, user_data, answered>>
  ELSE LET d == SetKey(user_data[u], "current_category", category)
       IN IF get_new_question(category) = {}
          THEN /\ user_data' = [user_data EXCEPT ![u] = d]
               /\ reply' = Message("no_questions", -1)
               /\ UNCHANGED <<scores, file, answered>>
          ELSE \E question_data \in get_new_question(category) :
                 /\ user_data' = [user_data EXCEPT
                                    ![u] = SetKey(d, "current_question", question_data)]
                 /\ reply' = Message("category_question", -1)
                 /\ answered' = [answered EXCEPT ![u] = FALSE]
                 /\ UNCHANGED <<scores, file>>

\* a bug: the score is raised whatever was selected
AnswerScores_AlwaysIncrement(sc, u, name, question_data, selected) ==
  LET sc1 == IF ~HasUser(sc, u) THEN NewRecord(sc, u, name) ELSE sc
  IN IncrementScore(SetName(sc1, u, name), u)

\* the score table after an answer to question_data
AnswerScores(sc, u, name, question_data, selected) ==
  LET sc1 == IF ~HasUser(sc, u) THEN NewRecord(sc, u, name) ELSE sc
      sc2 == SetName(sc1, u, name)
  IN IF selected = question_data.answer THEN IncrementScore(sc2, u) ELSE sc2

\* a bug: the name is refreshed and saved before the question is looked up
button_handler_NameFirst(u, name, selected, ok) ==
  LET sc0 == SetName(IF ~HasUser(scores, u) THEN NewRecord(scores, u, name) ELSE scores,
                     u, name)
  IN IF ~HasKey(user_data[u], "current_question")
     THEN /\ scores' = sc0
          /\ file' = save_scores(file, sc0, ok)
          /\ reply' = Message("start_quiz_first", -1)
          /\ UNCHANGED <<user_data, answered>>
     ELSE LET question_data == user_data[u]["current_question"]
              correct == question_data.answer
              sc == AnswerScores(scores, u, name, question_data, selected)
          IN /\ selected = correct => ScoreOf(scores, u) < MaxScore
             /\ scores' = sc
             /\ file' = save_scores(file, sc, ok)
             /\ reply' = Message(IF selected = correct THEN "correct" ELSE "wrong",
                                 ScoreOf(sc, u))
             /\ answered' = [answered EXCEPT ![u] = TRUE]
             /\ UNCHANGED user_data

button_handler(u, name, selected, ok) ==
  IF ~HasKey(user_data[u], "current_question")
  THEN /\ reply' = Message("start_quiz_first", -1)
       /\ UNCHANGED <<scores, file, user_data, answered>>
  ELSE LET question_data == user_data[u]["current_question"]
           correct == question_data.answer
           sc == AnswerScores(scores, u, name, question_data, selected)
       IN /\ selected = correct => ScoreOf(scores, u) < MaxScore
          /\ scores' = sc
          /\ file' = save_scores(file, sc, ok)
          /\ reply' = Message(IF selected = correct THEN "correct" ELSE "wrong",
                              ScoreOf(sc, u))
          /\ answered' = [answered EXCEPT ![u] = TRUE]
          /\ UNCHANGED user_data

next_question_handler(u) ==
  IF ~HasKey(user_data[u], "current_category")
  THEN /\ reply' = Message("select_category_first", -1)
       /\ UNCHANGED <<scores, file, user_data, answered>>
  ELSE LET category == user_data[u]["current_category"]
       IN IF get_new_question(category) = {}
          THEN /\ reply' = Message("no_more_questions", -1)
               /\ UNCHANGED <<scores, file, user_data, answered>>
          ELSE \E question_data \in get_new_question(category) :
                 /\ user_data' = [user_data EXCEPT
                                    ![u] = SetKey(@, "current_question", question_data)]
                 /\ reply' = Message("question", -1)
                 /\ answered' = [answered EXCEPT ![u] = FALSE]
                 /\ UNCHANGED <<scores, file>>

\* a bug: the new record is not saved
score_NoSave(u, name, ok) ==
  LET sc == IF ~HasUser(scores, u) THEN NewRecord(scores, u, name) ELSE scores
  IN /\ scores' = sc
     /\ reply' = Message("score", ScoreOf(sc, u))
     /\ UNCHANGED <<file, user_data, answered>>

\* /score: create the record if the user has none, show the score
score(u, name, ok) ==
  LET sc == IF ~HasUser(scores, u) THEN NewRecord(scores, u, name) ELSE scores
  IN /\ scores' = sc
     /\ file' = IF ~HasUser(scores, u) THEN save_scores(file, sc, ok) ELSE file
     /\ reply' = Message("score", ScoreOf(sc, u))
     /\ UNCHANGED <<user_data, answered>>

\* /leaderboard: the first page
leaderboard(u) ==
  /\ UNCHANGED <<scores, file, user_data, answered>>
  /\ reply' = IF scores = <<>> THEN Message("leaderboard_empty", -1)
              ELSE LeaderboardMessage(0,
                     build_leaderboard_page(SortedScores(scores), 0, u))

\* a leaderboard_page_<n> button
leaderboard_page_handler(u, page) ==
  /\ UNCHANGED <<scores, file, user_data, answered>>
  /\ reply' = LeaderboardMessage(page,
                build_leaderboard_page(SortedScores(scores), page, u))

\* ------------------------------------------------------------------ startup
\* questions.json: absent, not JSON, or a parsed JSON value. A value is
\* [type, entries]; a dict's entries are [key, value], a list's are values, and
\* a question dict is described by the keys it has.
JsonList(entries) == [type |-> "list", entries |-> entries]
JsonDict(entries) == [type |-> "dict", entries |-> entries]
JsonString == [type |-> "str", entries |-> <<>>]
QuestionDict(keys) == [type |-> "dict", keys |-> keys]

MissingQuestions == [state |-> "missing", value |-> JsonString]
InvalidQuestions == [state |-> "invalid_json", value |-> JsonString]
ParsedQuestions(value) == [state |-> "json", value |-> value]

\* the catalog the handlers are modelled with (quiz_data above)
GoodCatalog ==
  JsonDict(<<[key |-> "math",
              value |-> JsonList(<<QuestionDict({"question", "options", "answer"}),
                                   QuestionDict({"question", "options", "answer"})>>)],
             [key |-> "empty", value |-> JsonList(<<>>)]>>)

QuestionFiles ==
  {MissingQuestions,
   InvalidQuestions,
   ParsedQuestions(JsonList(<<>>)),
   ParsedQuestions(JsonString),
   ParsedQuestions(JsonDict(<<>>)),
   ParsedQuestions(GoodCatalog),
   ParsedQuestions(JsonDict(<<[key |-> "math", value |-> JsonString]>>)),
   ParsedQuestions(JsonDict(<<[key |-> "math",
                               value |-> JsonList(<<QuestionDict({"question"})>>)]>>))}

\* load_questions: SystemExit(1), or the parsed data
load_questions(f) ==
  IF f.state = "missing" THEN [exit |-> TRUE, data |-> JsonString]
  ELSE IF f.state = "invalid_json" THEN [exit |-> TRUE, data |-> JsonString]
  ELSE IF f.value.type # "dict" \/ f.value.entries = <<>>
       THEN [exit |-> TRUE, data |-> JsonString]
       ELSE [exit |-> FALSE, data |-> f.value]

\* the process before bot.py is imported
Booting(token, questions) ==
  [phase |-> "env", token |-> token, questions |-> questions,
   catalog |-> JsonString, reason |-> "none"]

\* the started bot of Spec: token set, the catalog loaded
Started ==
  [phase |-> "running", token |-> TRUE, questions |-> ParsedQuestions(GoodCatalog),
   catalog |-> GoodCatalog, reason |-> "none"]

Exit(b, reason) == [b EXCEPT !.phase = "exited", !.reason = reason]

\* BOT_TOKEN = os.getenv("BOT_TOKEN"); if not BOT_TOKEN: raise SystemExit
CheckToken ==
  /\ boot.phase = "env"
  /\ boot' = IF boot.token THEN [boot EXCEPT !.phase = "scores"] ELSE Exit(boot, "token")
  /\ UNCHANGED <<scores, file, user_data, reply, answered, disk, tasks, db>>

\* scores = load_scores()
LoadScores ==
  /\ boot.phase = "scores"
  /\ scores' = load_scores(file)
  /\ boot' = [boot EXCEPT !.phase = "questions"]
  /\ UNCHANGED <<file, user_data, reply, answered, disk, tasks, db>>

\* quiz_data = load_questions()
LoadQuestions ==
  /\ boot.phase = "questions"
  /\ LET r == load_questions(boot.questions)
     IN boot' = IF r.exit THEN Exit(boot, "questions")
                ELSE [boot EXCEPT !.phase = "main", !.catalog = r.data]
  /\ UNCHANGED <<scores, file, user_data, reply, answered, disk, tasks, db>>

\* main(): the handlers are registered and polling starts
RunMain ==
  /\ boot.phase = "main"
  /\ boot' = [boot EXCEPT !.phase = "running"]
  /\ UNCHANGED <<scores, file, user_data, reply, answered, disk, tasks, db>>

\* ------------------------------------------------- save_scores, step by step
\* at: the statement of save_scores about to run (idle: not in save_scores);
\* tmp: scores.json.tmp; msg: the reply the handler sends after the save.
\* History: old is scores.json when the last save began, last is how that save
\* ended (none: no save yet or one is running; crashed: the process was killed
\* inside save_scores and has been started again).
NoSave ==
  [at |-> "idle", tmp |-> MissingFile, msg |-> "none",
   old |-> MissingFile, last |-> "none"]

\* a bug: the table is written to scores.json itself
OpenForWrite_InPlace(f, tmp) == [file |-> CorruptFile, tmp |-> tmp]

\* open(tmp, "w"): scores.json.tmp is created or truncated; an empty or partly
\* written file is not JSON
OpenForWrite(f, tmp) == [file |-> f, tmp |-> CorruptFile]

\* a handler has changed the table to sc and calls save_scores(scores)
BeginSave(sc, msg) ==
  /\ disk.at = "idle"
  /\ scores' = sc
  /\ disk' = [disk EXCEPT !.at = "open", !.msg = msg, !.old = file, !.last = "none"]

\* /start up to its save_scores call
StartBegins(u, name) ==
  /\ BeginSave(IF ~HasUser(scores, u) THEN NewRecord(scores, u, name)
               ELSE SetName(scores, u, name), "welcome")
  /\ UNCHANGED <<file, user_data, reply, answered, boot, tasks, db>>

\* button_handler up to its save_scores call
AnswerBegins(u, name, selected) ==
  /\ HasKey(user_data[u], "current_question")
  /\ LET question_data == user_data[u]["current_question"]
         correct == question_data.answer
     IN /\ selected = correct => ScoreOf(scores, u) < MaxScore
        /\ BeginSave(AnswerScores(scores, u, name, question_data, selected),
                     IF selected = correct THEN "correct" ELSE "wrong")
  /\ answered' = [answered EXCEPT ![u] = TRUE]
  /\ UNCHANGED <<file, user_data, reply, boot, tasks, db>>

\* save_scores returns, by its last statement or through `except Exception`,
\* and the handler sends its reply
Returned(d, how) == [d EXCEPT !.at = "idle", !.msg = "none", !.last = how]

\* with open(tmp, "w", encoding="utf-8") as f
SaveOpen(ok) ==
  /\ disk.at = "open"
  /\ IF ok
     THEN LET r == OpenForWrite(file, disk.tmp)
          IN /\ file' = r.file
             /\ disk' = [disk EXCEPT !.at = "dump", !.tmp = r.tmp]
             /\ UNCHANGED reply
     ELSE /\ disk' = Returned(disk, "failed")
          /\ reply' = Message(disk.msg, -1)
          /\ UNCHANGED file
  /\ UNCHANGED <<scores, user_data, answered, boot, tasks, db>>

\* json.dump(data, f, ...) and the close of f
SaveDump(ok) ==
  /\ disk.at = "dump"
  /\ IF ok
     THEN /\ disk' = [disk EXCEPT !.at = "replace", !.tmp = SavedFile(scores)]
          /\ UNCHANGED reply
     ELSE /\ disk' = Returned(disk, "failed")
          /\ reply' = Message(disk.msg, -1)
  /\ UNCHANGED <<scores, file, user_data, answered, boot, tasks, db>>

\* os.replace(tmp, SCORES_FILE): one rename
SaveReplace(ok) ==
  /\ disk.at = "replace"
  /\ IF ok
     THEN /\ file' = disk.tmp
          /\ disk' = [Returned(disk, "done") EXCEPT !.tmp = MissingFile]
     ELSE /\ disk' = Returned(disk, "failed")
          /\ UNCHANGED file
  /\ reply' = Message(disk.msg, -1)
  /\ UNCHANGED <<scores, user_data, answered, boot, tasks, db>>

\* the process is killed and started again: memory is lost, the files stay
Crash ==
  /\ scores' = load_scores(file)
  /\ user_data' = [u \in Users |-> NoData]
  /\ answered' = [u \in Users |-> FALSE]
  /\ reply' = Message("none", -1)
  /\ disk' = Returned(disk, IF disk.at # "idle" THEN "crashed" ELSE disk.last)
  /\ UNCHANGED <<file, boot, tasks, db>>

\* ------------------------------------------------- interleaved answer handlers
\* run: the button_handler coroutines in flight, each [user, name, selected, at,
\* shown, seen]; at is the await the coroutine is suspended at, shown the score
\* in its response text. History: base is the
\* score table when the first update arrived, started counts the updates,
\* correct counts each user's answers resolved as correct.
NoTasks ==
  [run |-> <<>>, base |-> <<>>, started |-> 0, correct |-> [u \in Users |-> 0]]

RemoveAt(seq, i) == SubSeq(seq, 1, i - 1) \o SubSeq(seq, i + 1, Len(seq))

\* a bug: the handler updates the score it saw before `await query.answer()`
TableAtUpdate_Stale(sc, t) ==
  IF HasUser(sc, t.user) /\ t.seen >= 0
  THEN [sc EXCEPT ![IndexOf(sc, t.user)].score = t.seen]
  ELSE sc

\* the table lines 273-278 read and update: the global, as it is at that time
TableAtUpdate(sc, t) == sc

\* an answer update arrives: button_handler runs up to `await query.answer()`
Dispatch(u, name, selected) ==
  /\ tasks.started < MaxTasks
  /\ tasks' = [tasks EXCEPT
                 !.run = Append(@, [user |-> u, name |-> name, selected |-> selected,
                                    at |-> "answer", shown |-> 0 - 1,
                                    seen |-> IF HasUser(scores, u)
                                             THEN ScoreOf(scores, u) ELSE 0 - 1]),
                 !.base = IF tasks.started = 0 THEN scores ELSE @,
                 !.started = @ + 1]
  /\ UNCHANGED <<scores, file, user_data, reply, answered, boot, disk, db>>

\* query.answer() returned: lines 261-283 run without an await in between,
\* up to the `await query.edit_message_text(...)` of either branch
Resume(i) ==
  LET t == tasks.run[i]
      u == t.user
  IN /\ t.at = "answer"
     /\ IF ~HasKey(user_data[u], "current_question")
        THEN /\ tasks' = [tasks EXCEPT !.run[i].at = "edit_rejected"]
             /\ UNCHANGED <<scores, file, answered>>
        ELSE LET question_data == user_data[u]["current_question"]
                 correct == question_data.answer
                 sc == AnswerScores(TableAtUpdate(scores, t), u, t.name,
                                    question_data, t.selected)
             IN /\ scores' = sc
                /\ file' = save_scores(file, sc, TRUE)
                /\ answered' = [answered EXCEPT ![u] = TRUE]
                /\ tasks' = [tasks EXCEPT
                               !.run[i] = [@ EXCEPT
                                  !.at = IF t.selected = correct
                                         THEN "edit_correct" ELSE "edit_wrong",
                                  !.shown = ScoreOf(sc, u)],
                               !.correct[u] = IF t.selected = correct THEN @ + 1 ELSE @]
     /\ UNCHANGED <<user_data, reply, boot, disk, db>>

\* edit_message_text returned: the coroutine ends
Finish(i) ==
  LET t == tasks.run[i]
  IN /\ t.at \in {"edit_rejected", "edit_correct", "edit_wrong"}
     /\ reply' = IF t.at = "edit_rejected" THEN Message("start_quiz_first", -1)
                 ELSE Message(IF t.at = "edit_correct" THEN "correct" ELSE "wrong",
                              t.shown)
     /\ tasks' = [tasks EXCEPT !.run = RemoveAt(@, i)]
     /\ UNCHANGED <<scores, file, user_data, answered, boot, disk, db>>

\* ---------------------------------------------------------------- migration
\* quiz_bot.db does not exist. users is the table's rows; migrated and replaced
\* are history: a migration has committed, and one has overwritten a row.
NoDb == [exists |-> FALSE, users |-> {}, migrated |-> FALSE, replaced |-> FALSE]

\* str(user_id): the decimal digits of a positive id, most significant first
RECURSIVE str(_)
str(n) == IF n < 10 THEN <<n>> ELSE Append(str(n \div 10), n % 10)

\* int(user_id) of a key of scores.json
RECURSIVE int(_)
int(digits) ==
  IF Len(digits) = 0 THEN 0
  ELSE int(SubSeq(digits, 1, Len(digits) - 1)) * 10 + digits[Len(digits)]

\* the row one record of scores.json is migrated to
UserRow(rec) == [user_id |-> int(str(rec.uid)), name |-> rec.name, score |-> rec.score]

\* a bug: INSERT OR IGNORE keeps the row the table already has for the id
InsertOrReplace_Ignore(users, row) ==
  IF \E r \in users : r.user_id = row.user_id THEN users ELSE users \cup {row}

\* INSERT OR REPLACE INTO users: user_id is the primary key
InsertOrReplace(users, row) ==
  {r \in users : r.user_id # row.user_id} \cup {row}

\* the loop of migrate_scores over data.items(), in the file's order
RECURSIVE InsertAll(_, _)
InsertAll(users, data) ==
  IF data = <<>> THEN users
  ELSE InsertAll(InsertOrReplace(users, UserRow(Head(data))), Tail(data))

\* migrate_scores: the users table after the commit. Without scores.json it
\* returns 0; on a file that is not JSON json.load raises before any insert.
migrate_scores(users, f) ==
  IF f.state = "saved" THEN InsertAll(users, f.data) ELSE users

\* python database_setup.py: CREATE TABLE IF NOT EXISTS
database_setup ==
  /\ db' = [db EXCEPT !.exists = TRUE]
  /\ UNCHANGED <<scores, file, user_data, reply, answered, boot, disk, tasks>>

\* python migrate_data.py: main returns at once without quiz_bot.db
migrate_data ==
  /\ IF ~db.exists
     THEN UNCHANGED db
     ELSE LET users == migrate_scores(db.users, file)
          IN db' = [db EXCEPT
                      !.users = users,
                      !.migrated = (@ \/ file.state = "saved"),
                      !.replaced = (@ \/ \E r \in db.users : r \notin users)]
  /\ UNCHANGED <<scores, file, user_data, reply, answered, boot, disk, tasks>>

\* ------------------------------------------------------------ specification
\* scores.json as the bot finds it at import time
InitialFiles ==
  {MissingFile, CorruptFile, SavedFile(<<[uid |-> 2, name |-> "A", score |-> 1]>>)}

Init ==
  /\ file \in InitialFiles
  /\ scores = load_scores(file)
  /\ user_data = [u \in Users |-> NoData]
  /\ reply = Message("none", -1)
  /\ answered = [u \in Users |-> FALSE]
  /\ boot = Started
  /\ disk = NoSave
  /\ tasks = NoTasks
  /\ db = NoDb

\* One update is handled per step. In Spec every save_scores call succeeds;
\* the handlers take the outcome of the write as their last parameter.
Next ==
  \/ \E u \in Users, name \in Names : start(u, name, TRUE) /\ UNCHANGED others
  \/ \E u \in Users : quiz(u) /\ UNCHANGED others
  \/ \E u \in Users, category \in CategoryInputs :
       select_category_handler(u, category) /\ UNCHANGED others
  \/ \E u \in Users, name \in Names, selected \in OptionInputs :
       button_handler(u, name, selected, TRUE) /\ UNCHANGED others
  \/ \E u \in Users : next_question_handler(u) /\ UNCHANGED others
  \/ \E u \in Users, name \in Names : score(u, name, TRUE) /\ UNCHANGED others
  \/ \E u \in Users : leaderboard(u) /\ UNCHANGED others
  \/ \E u \in Users, page \in PageButtons :
       leaderboard_page_handler(u, page) /\ UNCHANGED others

Spec == Init /\ [][Next]_vars

\* ------------------------------------------- the paginator on larger tables
\* A score table of n players: names alternate, scores follow pattern v
Snapshot(n, v) ==
  [i \in 1..n |->
     [uid |-> i,
      name |-> IF i % 2 = 0 THEN "A" ELSE "B",
      score |-> (i * v) % (MaxScore + 1)]]

\* every page number build_leaderboard_page can be called with
PageInputs == (0 - 2)..MaxPageAsk

\* build_leaderboard_page applied to the sorted table and any integer page
BuildPage(u, page) ==
  /\ UNCHANGED <<scores, file, user_data, answered>>
  /\ reply' = LeaderboardMessage(page,
                build_leaderboard_page(SortedScores(scores), page, u))

\* the user presses a navigation button of the page shown
FollowButton(u) ==
  /\ reply.kind = "leaderboard"
  /\ \E i \in DOMAIN reply.view.buttons :
       leaderboard_page_handler(u, reply.view.buttons[i].page)

PageInit ==
  /\ \E n \in 0..MaxTotal, v \in 0..2 : scores = Snapshot(n, v)
  /\ file = SavedFile(scores)
  /\ user_data = [u \in Users |-> NoData]
  /\ reply = Message("none", -1)
  /\ answered = [u \in Users |-> FALSE]
  /\ boot = Started
  /\ disk = NoSave
  /\ tasks = NoTasks
  /\ db = NoDb

PageNext ==
  \/ \E u \in Users, page \in PageInputs : BuildPage(u, page) /\ UNCHANGED others
  \/ \E u \in Users : FollowButton(u) /\ UNCHANGED others
  \/ \E u \in Users : leaderboard(u) /\ UNCHANGED others

\* ------------------------------------------------------- the import of bot.py
\* the environment the process is started in
StartupInit ==
  /\ \E token \in BOOLEAN, questions \in QuestionFiles : boot = Booting(token, questions)
  /\ file \in InitialFiles \cup {SavedFile(<<>>)}
  /\ scores = <<>>
  /\ user_data = [u \in Users |-> NoData]
  /\ reply = Message("none", -1)
  /\ answered = [u \in Users |-> FALSE]
  /\ disk = NoSave
  /\ tasks = NoTasks
  /\ db = NoDb

StartupNext ==
  \/ CheckToken
  \/ LoadScores
  \/ LoadQuestions
  \/ RunMain

StartupSpec == StartupInit /\ [][StartupNext]_vars

PageSpec == PageInit /\ [][PageNext]_vars

\* ------------------------------------------------- crashes and failed writes
\* One handler at a time; its save_scores call runs statement by statement,
\* any of which may raise, and the process may be killed between any two.
CrashNext ==
  \/ \E u \in Users, name \in Names : StartBegins(u, name)
  \/ disk.at = "idle" /\ select_category_handler(1, "math") /\ UNCHANGED others
  \/ \E selected \in OptionInputs : AnswerBegins(1, "A", selected)
  \/ \E ok \in BOOLEAN : SaveOpen(ok)
  \/ \E ok \in BOOLEAN : SaveDump(ok)
  \/ \E ok \in BOOLEAN : SaveReplace(ok)
  \/ Crash

CrashSpec == Init /\ [][CrashNext]_vars

\* ----------------------------------------------- answers handled concurrently
\* Answer updates of both users are taken up while earlier ones are suspended;
\* questions are delivered in between.
ConcNext ==
  \/ \E u \in Users : select_category_handler(u, "math") /\ UNCHANGED others
  \/ \E u \in Users, selected \in OptionInputs : Dispatch(u, "A", selected)
  \/ \E i \in DOMAIN tasks.run : Resume(i)
  \/ \E i \in DOMAIN tasks.run : Finish(i)

ConcSpec == Init /\ [][ConcNext]_vars

\* ------------------------------------------- the bot and the migration scripts
\* the bot answers user 1 while the two scripts are run by hand, in any order
MigrateNext ==
  \/ \E u \in Users, name \in Names : start(u, name, TRUE) /\ UNCHANGED others
  \/ select_category_handler(1, "math") /\ UNCHANGED others
  \/ \E name \in Names, selected \in OptionInputs :
       button_handler(1, name, selected, TRUE) /\ UNCHANGED others
  \/ database_setup
  \/ migrate_data

MigrateSpec == Init /\ [][MigrateNext]_vars

\* ------------------------------------------------------------------ claims
HasQuestion(u) == HasKey(user_data[u], "current_question")
HasCategory(u) == HasKey(user_data[u], "current_category")

\* the position of question q in sequence qs, 0 when it is not in it
Position(qs, q) ==
  IF \E i \in 1..Len(qs) : qs[i] = q
  THEN CHOOSE i \in 1..Len(qs) : qs[i] = q
  ELSE 0

\* some answer button press of user u is this step
AnswerStep(u) ==
  \E name \in Names, selected \in OptionInputs, ok \in BOOLEAN :
    button_handler(u, name, selected, ok)

\* C1: once the question delivered to a user has been resolved, a further
\* answer to it is a no-op (no score change, no second outcome message), and
\* the user's score does not rise again before the next delivery.
C1_AtMostOneResolution ==
  [][\A u \in Users :
       answered[u] =>
         /\ ScoreOf(scores', u) = ScoreOf(scores, u)
         /\ AnswerStep(u) =>
              /\ UNCHANGED <<scores, file>>
              /\ reply'.kind \notin {"correct", "wrong"}]_vars

\* C2: selecting a category delivers its first question, and "next" after the
\* k-th question of the category delivers the (k+1)-th.
C2_SequentialProgression ==
  [][\A u \in Users :
       /\ \A category \in Categories :
            (quiz_data[category] # <<>> /\ select_category_handler(u, category))
              => /\ "current_question" \in DOMAIN user_data'[u]
                 /\ user_data'[u]["current_question"] = quiz_data[category][1]
       /\ (HasCategory(u) /\ HasQuestion(u) /\ next_question_handler(u))
            => LET qs == quiz_data[user_data[u]["current_category"]]
                   k == Position(qs, user_data[u]["current_question"])
               IN (k > 0 /\ k < Len(qs))
                    => user_data'[u]["current_question"] = qs[k + 1]]_vars

\* C3: "next" after the last question of the category reports that the
\* category is complete, clears the session and leaves the scores alone.
C3_CompletionTerminal ==
  [][\A u \in Users :
       (HasCategory(u) /\ HasQuestion(u) /\ next_question_handler(u))
         => LET qs == quiz_data[user_data[u]["current_category"]]
            IN (qs # <<>> /\ user_data[u]["current_question"] = qs[Len(qs)])
                 => /\ reply'.kind = "no_more_questions"
                    /\ user_data'[u] = NoData
                    /\ UNCHANGED <<scores, file>>]_vars

\* C4: every delivered question that is not yet resolved has a timeout armed
\* for its user.
C4_TimeoutArmed ==
  \A u \in Users : (HasQuestion(u) /\ ~answered[u]) => u \in armed_timeouts

\* C8: an answer without a current question, "next" without a current
\* category and a leaderboard request on an empty table each send only their
\* guidance message and leave scores, scores.json and the sessions unchanged.
C8_UserStateErrorsNoEffect ==
  [][\A u \in Users :
       /\ (~HasQuestion(u) /\ AnswerStep(u))
            => /\ reply'.kind = "start_quiz_first"
               /\ UNCHANGED <<scores, file, user_data>>
       /\ (~HasCategory(u) /\ next_question_handler(u))
            => /\ reply'.kind = "select_category_first"
               /\ UNCHANGED <<scores, file, user_data>>
       /\ (scores = <<>> /\ leaderboard(u))
            => /\ reply'.kind = "leaderboard_empty"
               /\ UNCHANGED <<scores, file, user_data>>]_vars

\* an answer arrived for a user who has a score record but no question
C8_Witness ==
  /\ reply.kind = "start_quiz_first"
  /\ \E u \in Users : HasUser(scores, u) /\ ~HasQuestion(u)

\* C9: selecting a category that is not in the catalog, or one whose question
\* list is empty, changes neither the current category nor the current question.
C9_BadCategoryNoMutation ==
  [][\A u \in Users, category \in CategoryInputs :
       (/\ (category \notin DOMAIN quiz_data \/ quiz_data[category] = <<>>)
        /\ select_category_handler(u, category))
         => /\ reply'.kind \in {"unknown_category", "no_questions"}
            /\ user_data'[u] = user_data[u]]_vars

\* C10: records are created with score 0 and never removed; in every step a
\* user's score stays or rises by exactly 1, and it rises only in an answer
\* step of that user whose selected option is the current question's answer.
C10_ScoreMonotonic ==
  [][/\ \A i \in DOMAIN scores : scores[i].score >= 0
     /\ \/ scores' = scores
        \/ \A u \in Users :
             /\ HasUser(scores, u) => HasUser(scores', u)
             /\ \/ ScoreOf(scores', u) = ScoreOf(scores, u)
                \/ /\ ScoreOf(scores', u) = ScoreOf(scores, u) + 1
                   /\ HasQuestion(u)
                   /\ reply'.kind = "correct"
                   /\ \E name \in Names, ok \in BOOLEAN :
                        button_handler(u, name,
                                       user_data[u]["current_question"].answer, ok)
             /\ (~HasUser(scores, u) /\ HasUser(scores', u) /\ reply'.kind # "correct")
                  => ScoreOf(scores', u) = 0]_vars

\* a correct answer raised a score to 2, and another user's record exists
C10_Witness ==
  /\ reply.kind = "correct"
  /\ reply.score = 2
  /\ Len(scores) = 2

\* the last valid page of a table of `total` entries
LastPage(total) == IF total = 0 THEN 0 ELSE Ceil(total, PAGE_SIZE) - 1

\* entry a is listed before entry b: higher score first, then name ascending
RankedBefore(a, b) ==
  \/ a.score > b.score
  \/ a.score = b.score /\ NameRank(a.name) <= NameRank(b.name)

\* C5: every rendered leaderboard lists its entries by score descending, ties
\* broken by display name ascending, whatever the order of insertion.
C5_LeaderboardTotalOrder ==
  reply.kind = "leaderboard" =>
    \A i, j \in DOMAIN reply.view.lines :
      i < j => RankedBefore(reply.view.lines[i], reply.view.lines[j])

\* C6: for every table size and every page asked for (negative, in range or too
\* large) the page rendered is max(0, min(page, ceil(total/PAGE_SIZE) - 1)), page
\* 0 for an empty table; its rows are those of that page.
C6_PaginationClamp ==
  reply.kind = "leaderboard" =>
    LET total == Len(scores)
        want == IF total = 0 THEN 0
                ELSE Max(0, Min(reply.asked, Ceil(total, PAGE_SIZE) - 1))
    IN /\ reply.view.page = want
       /\ \E u \in Users :
            reply.view = build_leaderboard_page(SortedScores(scores), want, u)
       /\ total > 0 =>
            /\ reply.view.lines # <<>>
            /\ reply.view.lines[1].rank = want * PAGE_SIZE + 1

C6_Witness ==
  /\ reply.kind = "leaderboard"
  /\ Len(scores) = 12
  /\ reply.asked = 10
  /\ reply.view.page = 2

\* C7: on the page rendered, "previous" is offered iff page > 0 and names
\* page - 1, "next" is offered iff page < last page and names page + 1; the
\* page and every button stay within 0..last page.
C7_NavigationAffordances ==
  reply.kind = "leaderboard" =>
    LET v == reply.view
        last == LastPage(Len(scores))
        prev == {i \in DOMAIN v.buttons : v.buttons[i].label = "prev"}
        next == {i \in DOMAIN v.buttons : v.buttons[i].label = "next"}
    IN /\ v.page \in 0..last
       /\ Len(v.buttons) = Cardinality(prev) + Cardinality(next)
       /\ (prev # {}) <=> (v.page > 0)
       /\ (next # {}) <=> (v.page < last)
       /\ Cardinality(prev) <= 1 /\ Cardinality(next) <= 1
       /\ \A i \in prev : v.buttons[i].page = v.page - 1
       /\ \A i \in next : v.buttons[i].page = v.page + 1
       /\ \A i \in DOMAIN v.buttons : v.buttons[i].page \in 0..last

\* a middle page reached by following the "next" button of page 0
C7_Witness ==
  /\ reply.kind = "leaderboard"
  /\ reply.asked = 1
  /\ reply.view.page = 1
  /\ Len(reply.view.buttons) = 2

\* C15: the k-th row of a rendered page p is the entry at position
\* p*PAGE_SIZE + k of the sorted table with rank p*PAGE_SIZE + k (rows and
\* ranks counted from 1); over the valid pages every entry is listed exactly
\* once and the ranks are 1..total.
C15_RankContinuity ==
  LET sorted == SortedScores(scores)
      total == Len(sorted)
      RowsOk(v) ==
        \A k \in DOMAIN v.lines :
          /\ v.page * PAGE_SIZE + k <= total
          /\ v.lines[k].rank = v.page * PAGE_SIZE + k
          /\ v.lines[k].uid = sorted[v.page * PAGE_SIZE + k].uid
          /\ v.lines[k].name = sorted[v.page * PAGE_SIZE + k].name
          /\ v.lines[k].score = sorted[v.page * PAGE_SIZE + k].score
      Page(p) == build_leaderboard_page(sorted, p, 1)
  IN /\ reply.kind = "leaderboard" => RowsOk(reply.view)
     /\ \A i \in 1..total :
          Cardinality({pk \in (0..LastPage(total)) \X (1..PAGE_SIZE) :
                         /\ pk[2] \in DOMAIN Page(pk[1]).lines
                         /\ Page(pk[1]).lines[pk[2]].uid = sorted[i].uid}) = 1
     /\ \A i \in 1..total :
          \E p \in 0..LastPage(total) : \E k \in DOMAIN Page(p).lines :
            Page(p).lines[k].rank = i /\ Page(p).lines[k].uid = sorted[i].uid

\* the last page of a table of 12: ranks 11 and 12
C15_Witness ==
  /\ reply.kind = "leaderboard"
  /\ Len(scores) = 12
  /\ reply.view.page = 2
  /\ Len(reply.view.lines) = 2
  /\ reply.view.lines[1].rank = 11

\* some handler run for user u is this step (the handlers as Next runs them)
HandlerStep(u) ==
  \/ \E name \in Names : start(u, name, TRUE)
  \/ quiz(u)
  \/ \E category \in CategoryInputs : select_category_handler(u, category)
  \/ \E name \in Names, selected \in OptionInputs : button_handler(u, name, selected, TRUE)
  \/ next_question_handler(u)
  \/ \E name \in Names : score(u, name, TRUE)
  \/ leaderboard(u)
  \/ \E page \in PageButtons : leaderboard_page_handler(u, page)

\* the session or the score record of user v differs after this step
ChangedFor(v) ==
  \/ user_data'[v] # user_data[v]
  \/ HasUser(scores', v) # HasUser(scores, v)
  \/ /\ HasUser(scores, v)
     /\ HasUser(scores', v)
     /\ \/ NameOf(scores', v) # NameOf(scores, v)
        \/ ScoreOf(scores', v) # ScoreOf(scores, v)

\* C16: a handler run for user u changes no other user's current category,
\* current question, or score record (name and score).
C16_CrossUserIsolation ==
  [][\/ user_data' = user_data /\ scores' = scores
     \/ \A v \in Users : \A u \in Users \ {v} :
          ChangedFor(v) => ~HandlerStep(u)]_vars

\* both users have a record and a session, and an answer was just scored
C16_Witness ==
  /\ reply.kind = "correct"
  /\ \A u \in Users : HasUser(scores, u) /\ HasQuestion(u) /\ HasCategory(u)

\* C18: whenever a user has a current category and a current question, the
\* question is one of that category's questions in the catalog.
C18_SessionConsistency ==
  \A u \in Users :
    (HasCategory(u) /\ HasQuestion(u)) =>
      /\ user_data[u]["current_category"] \in DOMAIN quiz_data
      /\ user_data[u]["current_question"]
           \in Range(quiz_data[user_data[u]["current_category"]])

\* C19: between handlers (every write having succeeded) scores.json holds the
\* in-memory score table: what load_scores would read is the table.
C19_DurableAgreement ==
  /\ load_scores(file) = scores
  /\ scores # <<>> => file = SavedFile(scores)

\* a correct answer was scored and saved
C19_Witness ==
  /\ reply.kind = "correct"
  /\ reply.score = 1
  /\ file = SavedFile(scores)

\* the loaded catalog maps every category to a list of question dicts that
\* have the keys question, options and answer
WellFormedCatalog(data) ==
  /\ data.type = "dict"
  /\ \A i \in DOMAIN data.entries :
       /\ data.entries[i].value.type = "list"
       /\ \A j \in DOMAIN data.entries[i].value.entries :
            LET q == data.entries[i].value.entries[j]
            IN q.type = "dict" /\ {"question", "options", "answer"} \subseteq q.keys

\* C12: with scores.json missing at startup the process refuses to start, so
\* the bot never runs on a table that stands in for a missing file.
C12_MissingStoreIsFatal ==
  file.state = "missing" => boot.phase # "running"

\* C13: the bot runs only with a catalog in which every category maps to a
\* well-formed question list; any other questions.json ends the import.
C13_CatalogFailFast ==
  /\ boot.phase \in {"main", "running"} => WellFormedCatalog(boot.catalog)
  /\ (boot.phase = "exited" /\ boot.reason = "questions")
       => \/ boot.questions.state # "json"
          \/ ~WellFormedCatalog(boot.questions.value)
          \/ boot.questions.value.entries = <<>>

\* the table holds exactly one row for every id of the file, with the file's
\* name and score
Lossless(users, data) ==
  \A i \in DOMAIN data :
    /\ Cardinality({r \in users : r.user_id = data[i].uid}) = 1
    /\ \E r \in users :
         /\ r.user_id = data[i].uid
         /\ r.name = data[i].name
         /\ r.score = data[i].score

\* C17: migrate_scores run on the score file, whatever rows the table holds,
\* leaves one row per id of the file with the file's name and score, and a
\* second run on the same file changes nothing.
C17_MigrationLosslessIdempotent ==
  (db.exists /\ file.state = "saved") =>
    LET once == migrate_scores(db.users, file)
    IN /\ Lossless(once, file.data)
       /\ migrate_scores(once, file) = once

\* a second migration has replaced rows of the first: both users are in the
\* table with the scores of the file, user 1 with a score above 0
C17_Witness ==
  /\ db.migrated
  /\ db.replaced
  /\ file.state = "saved"
  /\ Len(file.data) = 2
  /\ ScoreOf(file.data, 1) > 0
  /\ Lossless(db.users, file.data)

\* C14: once every answer handler has finished, each user's score in memory
\* and in scores.json is the score they had when the first update arrived plus
\* the number of their answers resolved as correct.
C14_NoLostUpdates ==
  (tasks.started > 0 /\ tasks.run = <<>>) =>
    /\ \A u \in Users :
         ScoreOf(scores, u) = ScoreOf(tasks.base, u) + tasks.correct[u]
    /\ (\E u \in Users : answered[u]) => file = SavedFile(scores)

\* answers of user 1 were in flight together and two were resolved as correct
C14_Witness ==
  /\ tasks.started = MaxTasks
  /\ tasks.run = <<>>
  /\ tasks.correct[1] >= 2
  /\ reply.kind = "correct"
  /\ ScoreOf(scores, 1) = ScoreOf(tasks.base, 1) + tasks.correct[1]

\* C11: whenever save_scores is interrupted by a crash or a failed write,
\* scores.json is what it was before the save or the complete new table, never
\* a partly written file, and the table loaded after a crash is one of the two.
C11_AtomicPersistence ==
  /\ disk.at # "idle" => file \in {disk.old, SavedFile(scores)}
  /\ (disk.at # "idle" \/ disk.last # "none") =>
       (disk.old.state # "corrupt" => file.state # "corrupt")
  /\ disk.last = "failed" => file = disk.old
  /\ disk.last = "done" => file = SavedFile(scores)
  /\ disk.last = "crashed" =>
       \/ file = disk.old /\ scores = load_scores(disk.old)
       \/ file.state = "saved" /\ file # disk.old /\ scores = file.data

\* the process was killed after the temporary file was written and before the
\* rename: the table of two records is loaded again, the new one is lost whole
C11_Witness ==
  /\ disk.last = "crashed"
  /\ disk.tmp.state = "saved"
  /\ disk.tmp # file
  /\ file.state = "saved"
  /\ Len(scores) = 2
  /\ scores = file.data

====
